---- MODULE Spec2Model ----
(***************************************************************************)
(* Order lifecycle and simulated exchange of brokers-mcp.                  *)
(*                                                                         *)
(* The store is the SQLite database behind SimulationTradingClient         *)
(* (simulation/db.py).  Every Database.add / update / delete call opens    *)
(* its own session and commits, so each call is one atomic step and every  *)
(* `await` between two calls is a point where another task may run.        *)
(* ORM objects handed out by a read are detached snapshots: a later        *)
(* Database.update(obj, **kw) writes, for the row with obj's primary key,  *)
(* the columns of kw whose value differs from the snapshot.                *)
(* Timestamp columns are not modelled.                                     *)
(***************************************************************************)
EXTENDS Integers, Sequences, FiniteSets, TLC

\* ---------------------------------------------------------------- bounds
MaxOrders == 2      \* order rows the store may hold
MaxQty    == 2      \* order sizes are 1..MaxQty
MaxPrice  == 1      \* prices are 1..MaxPrice
NumTasks  == 1      \* concurrent tool calls
MaxCalls  == 3      \* tool calls started in one run
SimTrailPercent == 5000  \* the trail_percent tried against the simulation: 5%
MaxOpen   == 2      \* orders of the symbol the broker holds when liquidate_position runs
MaxRechecks == 6    \* status re-checks of one modify_order call that are followed up
MaxTickPrice == 2   \* limit, stop and bar prices the matching engine alone is run on
NumCallers == 3     \* concurrent callers of get_account and _initialize_db
MaxBars   == 3      \* bar timestamps (minutes) are 1..MaxBars
MaxRetry  == 3      \* retry budgets of the REST client are 1..MaxRetry
MaxIbPolls == 202   \* sleeps of one _wait_for_order_to_submit call that are followed up

\* ------------------------------------------------------- program constants
NumEngines == 2     \* one matching engine per constructed simulation client
NULL       == 0     \* a nullable column that is not set (None)
NoneStr    == -1    \* the text "None", str(close_options.qty) of a percentage close
None       == -1000000  \* an optional float argument that is not given (0 is a value)

Symbols == {"AAPL"}
Sides   == {"buy", "sell"}
Types   == {"market", "limit", "stop"}
Engines == 1..NumEngines
Tasks   == 1..NumTasks
OrderIds == 1..MaxOrders
Qtys    == 1..MaxQty
Prices  == 1..MaxPrice

OpenStatuses     == {"new", "accepted", "partially_filled"}
TerminalStatuses == {"filled", "canceled", "expired", "rejected", "stopped", "suspended"}
CancelExitStatuses == {"canceled", "expired", "rejected", "stopped", "suspended"}

VARIABLES
    orders,      \* table orders: function from order id to row
    fills,       \* table order_fills: sequence of rows, append only
    positions,   \* table positions: set of rows
    price,       \* latest close of table market_data, per symbol (NULL: no bar)
    engine,      \* per matching engine: position in _update_orders and its locals
    task,        \* per tool call: position in the running operation and its locals
    calls,       \* number of tool calls started so far
    po,          \* the place_order call: its position, locals and outcome
    mo,          \* the modify_order call: its position, locals and outcome
    ts,          \* the place_trailing_stop call: its position, locals and outcome
    lq,          \* the liquidate_position call against a broker, and the broker's view
    account,     \* table account: sequence of rows, in insertion order
    bars,        \* table market_data as the feed writes it: set of rows
    feed,        \* _update_market_data: its position in the refresh pass and its locals
    rq,          \* the AsyncRestClient._request call: its position, locals and outcome
    ib,          \* the _wait_for_order_to_submit call and the status of its trade
    ac           \* per caller of get_account / _initialize_db: its position and locals

simvars == <<orders, fills, positions, price, engine, task, calls>>
toolvars == <<po, mo, ts, lq>>
auxvars == <<account, bars, feed, rq, ib, ac>>
vars == <<orders, fills, positions, price, engine, task, calls, po, mo, ts, lq,
          account, bars, feed, rq, ib, ac>>

\* ------------------------------------------------------------------ store

NoOrder == [id |-> NULL, symbol |-> "", qty |-> NULL, side |-> "", type |-> "",
            limit_price |-> NULL, stop_price |-> NULL, status |-> "",
            filled_qty |-> NULL, filled_avg_price |-> NULL, legs |-> <<>>]

NoPosition == [id |-> NULL, symbol |-> "", qty |-> NULL, side |-> ""]

\* Order(...) as constructed by submit_order / close_position
NewOrder(id, symbol, qty, side, type, limit_price, stop_price, status, legs) ==
    [id |-> id, symbol |-> symbol, qty |-> qty, side |-> side, type |-> type,
     limit_price |-> limit_price, stop_price |-> stop_price, status |-> status,
     filled_qty |-> NULL, filled_avg_price |-> NULL, legs |-> legs]

\* Database.get(Order, id): the row, or None
DbGet(id) == IF id \in DOMAIN orders THEN orders[id] ELSE NoOrder

\* the rows of the given ids as a list, in id order
RECURSIVE RowsOf(_)
RowsOf(ids) ==
    IF ids = {} THEN <<>>
    ELSE LET m == CHOOSE i \in ids : \A j \in ids : i <= j
         IN  <<orders[m]>> \o RowsOf(ids \ {m})

\* Database.get_open_orders(): rows whose status is new/accepted/partially_filled
DbGetOpenOrders == RowsOf({i \in DOMAIN orders : orders[i].status \in OpenStatuses})

\* Database.add(order): the orders table afterwards
DbAddOrder(o) == [i \in DOMAIN orders \cup {o.id} |-> IF i = o.id THEN o ELSE orders[i]]

\* Database.get_position(symbol): the row of the symbol, or None
DbGetPosition(symbol) ==
    IF \E p \in positions : p.symbol = symbol
    THEN CHOOSE p \in positions : p.symbol = symbol
    ELSE NoPosition

\* Database.get_latest_price(symbol): close of the newest bar, or None
DbGetLatestPrice(symbol) == price[symbol]

\* Database.update as a write of the whole object: every column of the row is
\* set from the object, stale or not
DbUpdateRow_WholeRow(row, snap, kw) ==
    [k \in DOMAIN row |-> IF k \in DOMAIN kw THEN kw[k] ELSE snap[k]]

\* Database.update(obj, **kw) on a row: the UPDATE sets the columns of kw
\* whose new value differs from the value the object was loaded with
DbUpdateRow(row, snap, kw) ==
    [k \in DOMAIN row |->
        IF k \in DOMAIN kw /\ kw[k] # snap[k] THEN kw[k] ELSE row[k]]

\* Database.update(order, **kw): the orders table afterwards
DbUpdateOrder(snap, kw) ==
    [orders EXCEPT ![snap.id] = DbUpdateRow(orders[snap.id], snap, kw)]

\* ids of position rows that some task still holds a snapshot of
HeldPositionIds ==
    {engine[e].pos.id : e \in Engines} \cup {task[t].pos.id : t \in Tasks}

\* uuid4() for a new position row: an id no row and no snapshot carries
FreshPositionId ==
    CHOOSE i \in 1..(NumEngines + NumTasks + Cardinality(Symbols) + 1) :
        /\ i \notin {p.id : p \in positions} \cup HeldPositionIds
        /\ \A j \in 1..(i - 1) : j \in {p.id : p \in positions} \cup HeldPositionIds

\* ------------------------------------------------------------ local state

IdleEngine == [pc |-> "sleep", open |-> <<>>, fill_price |-> NULL, pos |-> NoPosition]

NoArgs == [limit_price |-> NULL, stop_price |-> NULL, qty |-> NULL]

\* no request object
NoRequest == [symbol |-> ""]

IdleTask == [pc |-> "idle", op |-> "", oid |-> NULL, ord |-> NoOrder,
             pos |-> NoPosition, args |-> NoArgs, req |-> NoRequest,
             todo |-> <<>>, obs |-> "", ret |-> ""]

\* ids that uuid4() has handed out: stored rows and legs still to be stored
UsedOrderIds ==
    DOMAIN orders \cup UNION {{task[t].todo[k].id : k \in 1..Len(task[t].todo)} : t \in Tasks}

\* uuid4() for new order rows: the n-th unused id
RECURSIVE FreshOrderId(_, _)
FreshOrderId(n, used) ==
    LET m == CHOOSE i \in OrderIds \ used : \A j \in OrderIds \ used : i <= j
    IN  IF n = 1 THEN m ELSE FreshOrderId(n - 1, used \cup {m})

Room(n) == Cardinality(OrderIds \ UsedOrderIds) >= n

\* retries = 5 in place_order
PlaceRetries == 5

\* datetime.now(tz=timezone("US/Eastern")): weekday() is 0 for Monday .. 6 for
\* Sunday; the times tried are Monday, Friday, Saturday and Sunday around the
\* opening and the closing hour
Weekdays == {0, 4, 5, 6}
Hours    == {8, 9, 10, 15, 16}
Minutes  == {0, 29, 30, 59}
Clocks   == [weekday : Weekdays, hour : Hours, minute : Minutes]
NoClock  == [weekday |-> 0, hour |-> 0, minute |-> 0]

IdlePlace == [pc |-> "idle", now |-> NoClock, take_profit |-> FALSE, stop_loss |-> FALSE,
              submitted |-> FALSE, status |-> "",
              retries |-> PlaceRetries, rechecks |-> 0, outcome |-> "", order_status |-> ""]

\* place_trailing_stop before it is called; trail_percent is in thousandths of a
\* percent and trail_price in cents
IdleTrail == [pc |-> "idle", now |-> NoClock, trail_percent |-> None, trail_price |-> None,
              submitted |-> FALSE, status |-> "",
              retries |-> PlaceRetries, rechecks |-> 0, outcome |-> "", order_status |-> ""]

\* modify_order before it is called
IdleModify == [pc |-> "idle", limit_price |-> None, stop_price |-> None, size |-> None,
               replaces |-> 0, status |-> "", rechecks |-> 0, outcome |-> "",
               order_status |-> ""]

\* the orders of the symbol at the broker
LqOrderIds == 1..MaxOpen

\* liquidate_position before it is called: its position, the ids get_orders
\* returned, the position of each gathered cancel_order call, the order
\* statuses and the position the broker holds, whether close_position was
\* requested, and the result
IdleLiquidate == [pc |-> "idle", open |-> {}, sub |-> [i \in LqOrderIds |-> "none"],
                  status |-> [i \in LqOrderIds |-> "new"], position |-> FALSE,
                  close_sent |-> FALSE, success |-> ""]

\* initial_cash = 100000.0, the cash of the account _initialize_db creates, and
\* cash="100000" of the account get_account creates
InitialCash == 100000

\* Account(id=..., cash=...): the columns of the account row that are followed
AccountRow(id, cash) == [id |-> id, cash |-> cash]

\* _update_market_data between two passes: the symbols still to refresh in the
\* pass, and the newest bar yfinance has returned so far per symbol
FeedSymbols == {"AAPL", "MSFT"}
NoBar == [timestamp |-> NULL, close |-> NULL]
IdleFeed == [pc |-> "sleep", todo |-> {}, newest |-> [s \in FeedSymbols |-> NoBar]]

\* _request before it is called: the configured budget self._retry, the local
\* configured retry codes self._retry_codes, the local retry, the response
\* status of each attempt made, and how the call ended
IdleRequest == [pc |-> "idle", budget |-> 0, codes |-> {}, retry |-> 0, log |-> <<>>,
                outcome |-> ""]

\* retries = 200 in _wait_for_order_to_submit
IbRetries == 200

\* _wait_for_order_to_submit before it is called: the status of the trade, the
\* local retries, the number of sleeps so far, whether cancelOrder was sent,
\* and how the call ended
IdleWait == [pc |-> "idle", status |-> "", retries |-> IbRetries, polls |-> 0,
             cancel_sent |-> FALSE, outcome |-> ""]

Callers == 1..NumCallers

\* a caller that is in neither get_account nor _initialize_db: the operation,
\* the account row it holds (id, 0 for None) and what it returned
IdleCaller == [pc |-> "idle", op |-> "", ret |-> NULL]

Init ==
    /\ orders = [i \in {} |-> NoOrder]
    /\ fills = <<>>
    /\ positions = {}
    /\ price = [s \in Symbols |-> NULL]
    /\ engine = [e \in Engines |-> IdleEngine]
    /\ task = [t \in Tasks |-> IdleTask]
    /\ calls = 0
    /\ po = IdlePlace
    /\ ts = IdleTrail
    /\ mo = IdleModify
    /\ lq = IdleLiquidate
    /\ account = <<AccountRow(1, InitialCash)>>
    /\ bars = {}
    /\ feed = IdleFeed
    /\ rq = IdleRequest
    /\ ib = IdleWait
    /\ ac = [c \in Callers |-> IdleCaller]

\* ------------------------------------------------------- market data feed

\* _update_market_data: a refresh stores a newer bar of the symbol
UpdateMarketData(s, p) ==
    /\ price[s] # p
    /\ price' = [price EXCEPT ![s] = p]
    /\ UNCHANGED <<orders, fills, positions, engine, task, calls, toolvars, auxvars>>

\* --------------------------------------------------------- matching engine

\* the decision with the stop comparisons of the two sides exchanged
ShouldFill_StopSidesSwapped(o, latest) ==
    IF o.type = "market" THEN "yes"
    ELSE IF o.type = "limit" THEN
        IF o.limit_price = NULL THEN "raise"
        ELSE IF o.side = "buy" /\ latest <= o.limit_price THEN "yes"
        ELSE IF o.side = "sell" /\ latest >= o.limit_price THEN "yes"
        ELSE "no"
    ELSE IF o.type = "stop" THEN
        IF o.stop_price = NULL THEN "raise"
        ELSE IF o.side = "buy" /\ latest <= o.stop_price THEN "yes"
        ELSE IF o.side = "sell" /\ latest >= o.stop_price THEN "yes"
        ELSE "no"
    ELSE "no"

\* lines 227-240 of _update_orders: "raise" when float(None) is evaluated
ShouldFill(o, latest) ==
    IF o.type = "market" THEN "yes"
    ELSE IF o.type = "limit" THEN
        IF o.limit_price = NULL THEN "raise"
        ELSE IF o.side = "buy" /\ latest <= o.limit_price THEN "yes"
        ELSE IF o.side = "sell" /\ latest >= o.limit_price THEN "yes"
        ELSE "no"
    ELSE IF o.type = "stop" THEN
        IF o.stop_price = NULL THEN "raise"
        ELSE IF o.side = "sell" /\ latest <= o.stop_price THEN "yes"
        ELSE IF o.side = "buy" /\ latest >= o.stop_price THEN "yes"
        ELSE "no"
    ELSE "no"

FillPrice(o, latest) ==
    IF o.type = "limit" THEN o.limit_price ELSE latest

\* open_orders = await self.db.get_open_orders()
EngineGetOpenOrders(e) ==
    /\ engine[e].pc = "sleep"
    /\ engine' = [engine EXCEPT ![e] = [IdleEngine EXCEPT !.pc = "price",
                                                          !.open = DbGetOpenOrders]]
    /\ UNCHANGED <<orders, fills, positions, price, task, calls, toolvars, auxvars>>

\* the for loop is exhausted: await asyncio.sleep(1)
EngineSleep(e) ==
    /\ engine[e].pc = "price"
    /\ engine[e].open = <<>>
    /\ engine' = [engine EXCEPT ![e] = IdleEngine]
    /\ UNCHANGED <<orders, fills, positions, price, task, calls, toolvars, auxvars>>

\* latest_price = await self.db.get_latest_price(order.symbol), then the
\* decision whether the order at the head of the loop is filled
EngineEvaluate(e) ==
    /\ engine[e].pc = "price"
    /\ engine[e].open # <<>>
    /\ LET o == Head(engine[e].open)
           latest == DbGetLatestPrice(o.symbol)
       IN  engine' = [engine EXCEPT ![e] =
               IF latest = NULL
               THEN [@ EXCEPT !.open = Tail(@)]
               ELSE IF ShouldFill(o, latest) = "raise" THEN IdleEngine
               ELSE IF ShouldFill(o, latest) = "yes"
               THEN [@ EXCEPT !.pc = "update", !.fill_price = FillPrice(o, latest)]
               ELSE [@ EXCEPT !.open = Tail(@)]]
    /\ UNCHANGED <<orders, fills, positions, price, task, calls, toolvars, auxvars>>

\* await self.db.update(order, status="filled", filled_qty=order.qty, ...)
EngineUpdateOrder(e) ==
    /\ engine[e].pc = "update"
    /\ LET o == Head(engine[e].open)
       IN  orders' = DbUpdateOrder(o, [status |-> "filled", filled_qty |-> o.qty,
                                       filled_avg_price |-> engine[e].fill_price])
    /\ engine' = [engine EXCEPT ![e].pc = "addfill"]
    /\ UNCHANGED <<fills, positions, price, task, calls, toolvars, auxvars>>

\* await self.db.add(fill)
EngineAddFill(e) ==
    /\ engine[e].pc = "addfill"
    /\ LET o == Head(engine[e].open)
       IN  fills' = Append(fills, [order_id |-> o.id, price |-> engine[e].fill_price,
                                   qty |-> o.qty])
    /\ engine' = [engine EXCEPT ![e].pc = "getpos"]
    /\ UNCHANGED <<orders, positions, price, task, calls, toolvars, auxvars>>

\* position = await self.db.get_position(order.symbol)
EngineGetPosition(e) ==
    /\ engine[e].pc = "getpos"
    /\ engine' = [engine EXCEPT ![e].pc = "updpos",
                                ![e].pos = DbGetPosition(Head(engine[e].open).symbol)]
    /\ UNCHANGED <<orders, fills, positions, price, task, calls, toolvars, auxvars>>

\* signed quantity of the fill: qty = -qty for a sell
SignedQty(o) == IF o.side = "sell" THEN 0 - o.qty ELSE o.qty

Abs(n) == IF n < 0 THEN 0 - n ELSE n

\* _update_position without the `new_qty == 0` branch: the row is never deleted
UpdatedPositions_KeepZero(o, pos) ==
    LET qty == SignedQty(o)
        new_qty == pos.qty + qty
    IN  IF pos # NoPosition
        THEN {IF p.id = pos.id
              THEN DbUpdateRow(p, pos,
                       [qty |-> Abs(new_qty),
                        side |-> IF new_qty > 0 THEN "long" ELSE "short"])
              ELSE p : p \in positions}
        ELSE positions \cup
                {[id |-> FreshPositionId, symbol |-> o.symbol, qty |-> Abs(qty),
                  side |-> IF qty > 0 THEN "long" ELSE "short"]}

\* _update_position after the read, when nothing raises: the position row is
\* deleted when the new quantity is zero, updated otherwise, inserted when the
\* symbol had no row
UpdatedPositions(o, pos) ==
    LET qty == SignedQty(o)
        new_qty == pos.qty + qty
    IN  IF pos # NoPosition
        THEN IF new_qty = 0
             THEN {p \in positions : p.id # pos.id}
             ELSE {IF p.id = pos.id
                   THEN DbUpdateRow(p, pos,
                            [qty |-> Abs(new_qty),
                             side |-> IF new_qty > 0 THEN "long" ELSE "short"])
                   ELSE p : p \in positions}
        ELSE positions \cup
                {[id |-> FreshPositionId, symbol |-> o.symbol, qty |-> Abs(qty),
                  side |-> IF qty > 0 THEN "long" ELSE "short"]}

\* the write of _update_position raises: an UPDATE of a row that is gone
\* (StaleDataError), or an INSERT of a second row for the symbol (unique symbol)
PositionWriteRaises(o, pos) ==
    IF pos # NoPosition
    THEN pos.qty + SignedQty(o) # 0 /\ ~(\E p \in positions : p.id = pos.id)
    ELSE \E p \in positions : p.symbol = o.symbol

\* the rest of _update_position: delete, update or insert the position row;
\* an exception ends the tick
EngineUpdatePosition(e) ==
    /\ engine[e].pc = "updpos"
    /\ LET o == Head(engine[e].open)
           pos == engine[e].pos
       IN  IF PositionWriteRaises(o, pos)
           THEN /\ positions' = positions
                /\ engine' = [engine EXCEPT ![e] = IdleEngine]
           ELSE /\ positions' = UpdatedPositions(o, pos)
                /\ engine' = [engine EXCEPT ![e] =
                      [@ EXCEPT !.pc = "price", !.open = Tail(@),
                                !.fill_price = NULL, !.pos = NoPosition]]
    /\ UNCHANGED <<orders, fills, price, task, calls, toolvars, auxvars>>

\* ------------------------------------------- SimulationTradingClient calls

OppositeSide(side) == IF side = "buy" THEN "sell" ELSE "buy"

\* order_data.<name> where the request object has the attribute, None where
\* hasattr(order_data, name) is false
Attr(order_data, name) ==
    IF name \in DOMAIN order_data THEN order_data[name] ELSE NULL

\* submit_order(order_data): build the order and its legs, then
\* `await self.db.add(order)`; the legs are stored by the following steps
SubmitOrderData(t, order_data) ==
    /\ task[t].pc = "idle"
    /\ calls < MaxCalls
    /\ calls' = calls + 1
    /\ LET symbol == order_data.symbol
           qty == order_data.qty
           side == order_data.side
           type == order_data.type
           limit_price == Attr(order_data, "limit_price")
           stop_price == Attr(order_data, "stop_price")
           take_profit == Attr(order_data, "take_profit_price")
           stop_loss == Attr(order_data, "stop_loss_price")
           nlegs == (IF take_profit # NULL THEN 1 ELSE 0) + (IF stop_loss # NULL THEN 1 ELSE 0)
       IN  /\ Room(1 + nlegs)
           /\ LET id  == FreshOrderId(1, UsedOrderIds)
                  tp  == IF take_profit # NULL
                         THEN <<NewOrder(FreshOrderId(2, UsedOrderIds), symbol, qty,
                                         OppositeSide(side), "limit", take_profit, NULL,
                                         "held", <<>>)>>
                         ELSE <<>>
                  sl  == IF stop_loss # NULL
                         THEN <<NewOrder(FreshOrderId(2 + Len(tp), UsedOrderIds), symbol, qty,
                                         OppositeSide(side), "stop", NULL, stop_loss,
                                         "held", <<>>)>>
                         ELSE <<>>
                  leg_orders == tp \o sl
                  order == NewOrder(id, symbol, qty, side, type, limit_price, stop_price, "new",
                                    [k \in 1..Len(leg_orders) |-> leg_orders[k].id])
              IN  /\ orders' = DbAddOrder(order)
                  /\ task' = [task EXCEPT ![t] =
                        [IdleTask EXCEPT !.op = "submit_order", !.oid = id,
                                         !.req = order_data,
                                         !.todo = leg_orders,
                                         !.pc = IF leg_orders = <<>> THEN "done" ELSE "s_legs",
                                         !.ret = IF leg_orders = <<>> THEN "new" ELSE ""]]
    /\ UNCHANGED <<fills, positions, price, engine, toolvars, auxvars>>

\* submit_order with a request object that carries limit_price, stop_price,
\* take_profit_price and stop_loss_price
SubmitOrder(t, symbol, qty, side, type, limit_price, stop_price, take_profit, stop_loss) ==
    SubmitOrderData(t, [symbol |-> symbol, qty |-> qty, side |-> side, type |-> type,
                        limit_price |-> limit_price, stop_price |-> stop_price,
                        take_profit_price |-> take_profit, stop_loss_price |-> stop_loss])

\* for leg_order in leg_orders: await self.db.add(leg_order)
SubmitAddLeg(t) ==
    /\ task[t].pc = "s_legs"
    /\ orders' = DbAddOrder(Head(task[t].todo))
    /\ task' = [task EXCEPT ![t].todo = Tail(@),
                            ![t].pc = IF Len(task[t].todo) = 1 THEN "done" ELSE "s_legs",
                            ![t].ret = IF Len(task[t].todo) = 1 THEN "new" ELSE ""]
    /\ UNCHANGED <<fills, positions, price, engine, calls, toolvars, auxvars>>

\* cancel_order_by_id, second half: await self.db.update(order, status="canceled", ...)
CancelOrderById(snap) ==
    DbUpdateOrder(snap, [status |-> "canceled"])

\* replace_order_by_id: order = await self.db.get(Order, order_id)
ReplaceOrderById(t, oid, limit_price, stop_price, qty) ==
    /\ task[t].pc = "idle"
    /\ calls < MaxCalls
    /\ calls' = calls + 1
    /\ task' = [task EXCEPT ![t] =
          IF DbGet(oid) = NoOrder
          THEN [IdleTask EXCEPT !.op = "replace_order_by_id", !.oid = oid,
                                !.pc = "done", !.ret = "ValueError"]
          ELSE [IdleTask EXCEPT !.op = "replace_order_by_id", !.oid = oid,
                                !.ord = DbGet(oid), !.pc = "r_update",
                                !.args = [limit_price |-> limit_price,
                                          stop_price |-> stop_price, qty |-> qty]]]
    /\ UNCHANGED <<orders, fills, positions, price, engine, toolvars, auxvars>>

\* replace_order_by_id: await self.db.update(order, **update_data).  qty is a
\* NOT NULL column, so a request that carries qty=None fails as a whole.
ReplaceUpdate(t) ==
    /\ task[t].pc = "r_update"
    /\ IF task[t].args.qty = NULL
       THEN /\ orders' = orders
            /\ task' = [task EXCEPT ![t].pc = "done", ![t].ret = "IntegrityError"]
       ELSE /\ orders' = DbUpdateOrder(task[t].ord, task[t].args)
            /\ task' = [task EXCEPT ![t].pc = "done", ![t].ret = task[t].ord.status]
    /\ UNCHANGED <<fills, positions, price, engine, calls, toolvars, auxvars>>

\* cancel_orders: select the open orders
CancelOrders(t) ==
    /\ task[t].pc = "idle"
    /\ calls < MaxCalls
    /\ calls' = calls + 1
    /\ task' = [task EXCEPT ![t] =
          [IdleTask EXCEPT !.op = "cancel_orders", !.todo = DbGetOpenOrders,
                           !.pc = IF DbGetOpenOrders = <<>> THEN "done" ELSE "co_update",
                           !.ret = IF DbGetOpenOrders = <<>> THEN "ok" ELSE ""]]
    /\ UNCHANGED <<orders, fills, positions, price, engine, toolvars, auxvars>>

\* cancel_orders: await self.db.update(order, status="canceled", ...) per order
CancelOrdersUpdate(t) ==
    /\ task[t].pc = "co_update"
    /\ orders' = CancelOrderById(Head(task[t].todo))
    /\ task' = [task EXCEPT ![t].todo = Tail(@),
                            ![t].pc = IF Len(task[t].todo) = 1 THEN "done" ELSE "co_update",
                            ![t].ret = IF Len(task[t].todo) = 1 THEN "ok" ELSE ""]
    /\ UNCHANGED <<fills, positions, price, engine, calls, toolvars, auxvars>>

\* close_position: position = await self.db.get_position(symbol)
ClosePosition(t, symbol, close_qty) ==
    /\ task[t].pc = "idle"
    /\ calls < MaxCalls
    /\ calls' = calls + 1
    /\ task' = [task EXCEPT ![t] =
          IF DbGetPosition(symbol) = NoPosition
          THEN [IdleTask EXCEPT !.op = "close_position", !.pc = "done", !.ret = "ValueError"]
          ELSE [IdleTask EXCEPT !.op = "close_position", !.pos = DbGetPosition(symbol),
                                !.args = [NoArgs EXCEPT !.qty = close_qty],
                                !.pc = "p_add"]]
    /\ UNCHANGED <<orders, fills, positions, price, engine, toolvars, auxvars>>

\* close_position: await self.db.add(order), the closing order, stored as filled
ClosePositionAddOrder(t) ==
    /\ task[t].pc = "p_add"
    /\ Room(1)
    /\ LET pos == task[t].pos
           id == FreshOrderId(1, UsedOrderIds)
           order == NewOrder(id, pos.symbol,
                             IF task[t].args.qty = NULL THEN pos.qty ELSE task[t].args.qty,
                             IF pos.side = "long" THEN "sell" ELSE "buy",
                             "market", NULL, NULL, "filled", <<>>)
       IN  /\ orders' = DbAddOrder(order)
           /\ task' = [task EXCEPT ![t].oid = id, ![t].pc = "p_delete"]
    /\ UNCHANGED <<fills, positions, price, engine, calls, toolvars, auxvars>>

\* close_position: await self.db.delete(position)
ClosePositionDelete(t) ==
    /\ task[t].pc = "p_delete"
    /\ positions' = {p \in positions : p.id # task[t].pos.id}
    /\ task' = [task EXCEPT ![t].pc = "done", ![t].ret = "filled"]
    /\ UNCHANGED <<orders, fills, price, engine, calls, toolvars, auxvars>>

\* ------------------------------------------------------- cancel_order tool

\* cancel_order -> cancel_order_by_id: order = await self.db.get(Order, order_id)
CancelOrder(t, oid) ==
    /\ task[t].pc = "idle"
    /\ calls < MaxCalls
    /\ calls' = calls + 1
    /\ task' = [task EXCEPT ![t] =
          IF DbGet(oid) = NoOrder
          THEN [IdleTask EXCEPT !.op = "cancel_order", !.oid = oid,
                                !.pc = "done", !.ret = "ValueError"]
          ELSE [IdleTask EXCEPT !.op = "cancel_order", !.oid = oid,
                                !.ord = DbGet(oid), !.pc = "c_update"]]
    /\ UNCHANGED <<orders, fills, positions, price, engine, toolvars, auxvars>>

\* cancel_order -> cancel_order_by_id: the update
CancelUpdate(t) ==
    /\ task[t].pc = "c_update"
    /\ orders' = CancelOrderById(task[t].ord)
    /\ task' = [task EXCEPT ![t].pc = "c_poll"]
    /\ UNCHANGED <<fills, positions, price, engine, calls, toolvars, auxvars>>

\* the exit test of cancel_order's while loop on the status it observed
CancelPollExits(status) == status \in CancelExitStatuses

\* cancel_order: order = await get_order_by_id(order_id), then the loop test
CancelPoll(t) ==
    /\ task[t].pc = "c_poll"
    /\ LET status == DbGet(task[t].oid).status
       IN  task' = [task EXCEPT ![t].obs = status,
                                ![t].pc = IF CancelPollExits(status) THEN "done" ELSE "c_sleep",
                                ![t].ret = IF CancelPollExits(status) THEN status ELSE ""]
    /\ UNCHANGED <<orders, fills, positions, price, engine, calls, toolvars, auxvars>>

\* cancel_order: await asyncio.sleep(0.1) inside the loop
CancelSleep(t) ==
    /\ task[t].pc = "c_sleep"
    /\ task' = [task EXCEPT ![t].pc = "c_poll"]
    /\ UNCHANGED <<orders, fills, positions, price, engine, calls, toolvars, auxvars>>

\* the call has returned (or raised) to its caller
Return(t) ==
    /\ task[t].pc = "done"
    /\ task' = [task EXCEPT ![t] = IdleTask]
    /\ UNCHANGED <<orders, fills, positions, price, engine, calls, toolvars, auxvars>>

\* ------------------------------------------------------- place_order tool

\* alpaca.trading.enums.OrderStatus: what a trading client may report
OrderStatuses ==
    {"new", "partially_filled", "filled", "done_for_day", "canceled", "expired",
     "replaced", "pending_cancel", "pending_replace", "pending_review", "accepted",
     "pending_new", "accepted_for_bidding", "stopped", "rejected", "suspended",
     "calculated", "held"}

\* the statuses place_order keeps polling on
PlacePollStatuses == {"pending_new", "accepted_for_bidding", "accepted"}

\* the raise test of place_order without CANCELED
PlaceFailStatuses_NoCanceled ==
    {"pending_cancel", "expired", "rejected", "stopped", "suspended", "pending_new"}

\* the statuses place_order raises on
PlaceFailStatuses ==
    {"pending_cancel", "canceled", "expired", "rejected", "stopped", "suspended",
     "pending_new"}

\* the while condition of place_order without `and retries > 0`
PlaceKeepsPolling_NoBudget(status, retries) == status \in PlacePollStatuses

\* the while condition of place_order
PlaceKeepsPolling(status, retries) == status \in PlacePollStatuses /\ retries > 0

\* is_market_open() at the time `now`, hour 9 counted as open whatever the minute
IsMarketOpen_WholeHour(now) ==
    now.weekday < 5 /\ ((10 <= now.hour /\ now.hour < 16) \/ now.hour = 9)

\* is_market_open() at the time `now` = datetime.now(tz=timezone("US/Eastern"))
IsMarketOpen(now) ==
    now.weekday < 5 /\ ((10 <= now.hour /\ now.hour < 16)
                          \/ (now.hour = 9 /\ now.minute >= 30))

\* place_order up to the request: the market-hours gate and the order class
PlaceOrder(now, take_profit, stop_loss) ==
    /\ po.pc = "idle"
    /\ po' = IF ~IsMarketOpen(now)
             THEN [IdlePlace EXCEPT !.pc = "done", !.now = now, !.outcome = "raise"]
             ELSE [IdlePlace EXCEPT !.pc = "submit", !.now = now,
                                    !.take_profit = take_profit, !.stop_loss = stop_loss]
    /\ UNCHANGED <<simvars, auxvars, mo, ts, lq>>

\* submitted_order = await trading_client.submit_order(order_request); retries = 5
PlaceSubmit(status) ==
    /\ po.pc = "submit"
    /\ po' = [po EXCEPT !.pc = "loop", !.submitted = TRUE, !.status = status,
                        !.retries = PlaceRetries]
    /\ UNCHANGED <<simvars, auxvars, mo, ts, lq>>

\* trading_client.submit_order raises (the broker rejects the request)
PlaceSubmitFails ==
    /\ po.pc = "submit"
    /\ po' = [po EXCEPT !.pc = "done", !.submitted = TRUE, !.outcome = "raise"]
    /\ UNCHANGED <<simvars, auxvars, mo, ts, lq>>

\* the while test: retries -= 1 and sleep, or leave the loop
PlaceLoop ==
    /\ po.pc = "loop"
    /\ po' = IF PlaceKeepsPolling(po.status, po.retries)
             THEN [po EXCEPT !.pc = "recheck", !.retries = @ - 1]
             ELSE [po EXCEPT !.pc = "check"]
    /\ UNCHANGED <<simvars, auxvars, mo, ts, lq>>

\* submitted_order = await trading_client.get_order_by_id(...)
PlaceRecheck(status) ==
    /\ po.pc = "recheck"
    /\ po' = [po EXCEPT !.pc = "loop", !.status = status, !.rechecks = @ + 1]
    /\ UNCHANGED <<simvars, auxvars, mo, ts, lq>>

\* after the loop: raise on a failure status, else return the response
PlaceFinish ==
    /\ po.pc = "check"
    /\ po' = IF po.status \in PlaceFailStatuses
             THEN [po EXCEPT !.pc = "done", !.outcome = "raise"]
             ELSE [po EXCEPT !.pc = "done", !.outcome = "return",
                             !.order_status = po.status]
    /\ UNCHANGED <<simvars, auxvars, mo, ts, lq>>

\* the call is over; the next call starts afresh
PlaceReturn ==
    /\ po.pc = "done"
    /\ po' = IdlePlace
    /\ UNCHANGED <<simvars, auxvars, mo, ts, lq>>

\* ------------------------------------------------ place_trailing_stop tool

\* thousandths of a percent: 0.01 and 20.0
MinTrailPercent == 10
MaxTrailPercent == 20000

\* the argument values tried: not given, negative, zero, 0.005, 0.01, 5, 20, 20.001
TrailPercents == {None, -1, 0, 5, MinTrailPercent, 5000, MaxTrailPercent, MaxTrailPercent + 1}
\* not given, negative, zero, one cent, two dollars
TrailPrices   == {None, -1, 0, 1, 200}

\* the argument checks of place_trailing_stop without the test for both given
TrailArgsValid_BothAllowed(trail_percent, trail_price) ==
    IF trail_percent = None /\ trail_price = None
    THEN FALSE
    ELSE IF trail_percent # None
         THEN ~(trail_percent < MinTrailPercent \/ trail_percent > MaxTrailPercent)
         ELSE ~(trail_price # None /\ trail_price <= 0)

\* the argument checks of place_trailing_stop: FALSE when one of them raises
TrailArgsValid(trail_percent, trail_price) ==
    IF \/ (trail_percent = None /\ trail_price = None)
       \/ (trail_percent # None /\ trail_price # None)
    THEN FALSE
    ELSE IF trail_percent # None
         THEN ~(trail_percent < MinTrailPercent \/ trail_percent > MaxTrailPercent)
         ELSE ~(trail_price # None /\ trail_price <= 0)

\* place_trailing_stop up to the request: the market-hours gate, then the
\* argument checks
PlaceTrailingStop(now, trail_percent, trail_price) ==
    /\ ts.pc = "idle"
    /\ ts' = IF ~IsMarketOpen(now) \/ ~TrailArgsValid(trail_percent, trail_price)
             THEN [IdleTrail EXCEPT !.pc = "done", !.now = now, !.outcome = "raise",
                                    !.trail_percent = trail_percent,
                                    !.trail_price = trail_price]
             ELSE [IdleTrail EXCEPT !.pc = "submit", !.now = now,
                                    !.trail_percent = trail_percent,
                                    !.trail_price = trail_price]
    /\ UNCHANGED <<simvars, auxvars, po, mo, lq>>

\* submitted_order = await trading_client.submit_order(order_request); retries = 5
TrailSubmit(status) ==
    /\ ts.pc = "submit"
    /\ ts' = [ts EXCEPT !.pc = "loop", !.submitted = TRUE, !.status = status,
                        !.retries = PlaceRetries]
    /\ UNCHANGED <<simvars, auxvars, po, mo, lq>>

\* trading_client.submit_order raises
TrailSubmitFails ==
    /\ ts.pc = "submit"
    /\ ts' = [ts EXCEPT !.pc = "done", !.submitted = TRUE, !.outcome = "raise"]
    /\ UNCHANGED <<simvars, auxvars, po, mo, lq>>

\* the while test: retries -= 1 and sleep, or leave the loop
TrailLoop ==
    /\ ts.pc = "loop"
    /\ ts' = IF PlaceKeepsPolling(ts.status, ts.retries)
             THEN [ts EXCEPT !.pc = "recheck", !.retries = @ - 1]
             ELSE [ts EXCEPT !.pc = "check"]
    /\ UNCHANGED <<simvars, auxvars, po, mo, lq>>

\* submitted_order = await trading_client.get_order_by_id(...)
TrailRecheck(status) ==
    /\ ts.pc = "recheck"
    /\ ts' = [ts EXCEPT !.pc = "loop", !.status = status, !.rechecks = @ + 1]
    /\ UNCHANGED <<simvars, auxvars, po, mo, lq>>

\* after the loop: raise on a failure status, else return the response
TrailFinish ==
    /\ ts.pc = "check"
    /\ ts' = IF ts.status \in PlaceFailStatuses
             THEN [ts EXCEPT !.pc = "done", !.outcome = "raise"]
             ELSE [ts EXCEPT !.pc = "done", !.outcome = "return",
                             !.order_status = ts.status]
    /\ UNCHANGED <<simvars, auxvars, po, mo, lq>>

\* the call is over; the next call starts afresh
TrailReturn ==
    /\ ts.pc = "done"
    /\ ts' = IdleTrail
    /\ UNCHANGED <<simvars, auxvars, po, mo, lq>>

\* place_order and place_trailing_stop against any trading client, one call
\* at a time
NextPlace ==
    \/ /\ ts.pc = "idle"
       /\ \E now \in Clocks, tp \in BOOLEAN, sl \in BOOLEAN : PlaceOrder(now, tp, sl)
    \/ \E st \in OrderStatuses : PlaceSubmit(st)
    \/ PlaceSubmitFails
    \/ PlaceLoop
    \/ \E st \in OrderStatuses : PlaceRecheck(st)
    \/ PlaceFinish
    \/ PlaceReturn
    \/ /\ po.pc = "idle"
       /\ \E now \in Clocks, tpc \in TrailPercents, tpr \in TrailPrices :
             PlaceTrailingStop(now, tpc, tpr)
    \/ \E st \in OrderStatuses : TrailSubmit(st)
    \/ TrailSubmitFails
    \/ TrailLoop
    \/ \E st \in OrderStatuses : TrailRecheck(st)
    \/ TrailFinish
    \/ TrailReturn

PlaceSpec == Init /\ [][NextPlace]_vars

\* --------------------------------------------------------- modify_order tool

\* the values tried for limit_price, stop_price and size: not given, 0, 1
ModifyValues == {None, 0, 1}

\* bool(x) of an optional number passed to modify_order
Truthy(x) == x # None /\ x # 0

\* the argument checks of modify_order: FALSE when one of them raises
ModifyArgsValid(limit_price, stop_price, size) ==
    /\ ~(Truthy(limit_price) /\ Truthy(stop_price))
    /\ ~(~Truthy(limit_price) /\ ~Truthy(stop_price) /\ ~Truthy(size))

\* the statuses modify_order keeps polling on
ModifyPollStatuses == {"pending_replace", "accepted_for_bidding", "accepted"}

\* the statuses modify_order raises on
ModifyFailStatuses ==
    {"pending_cancel", "canceled", "expired", "rejected", "stopped", "suspended",
     "pending_replace"}

\* modify_order up to the replace request: the two argument checks
ModifyOrder(limit_price, stop_price, size) ==
    /\ mo.pc = "idle"
    /\ mo' = [IdleModify EXCEPT !.limit_price = limit_price, !.stop_price = stop_price,
                                !.size = size,
                                !.pc = IF ModifyArgsValid(limit_price, stop_price, size)
                                       THEN "replace" ELSE "done",
                                !.outcome = IF ModifyArgsValid(limit_price, stop_price, size)
                                            THEN "" ELSE "raise"]
    /\ UNCHANGED <<simvars, auxvars, po, ts, lq>>

\* replaced_order = await trading_client.replace_order_by_id(...)
ModifyReplace(status) ==
    /\ mo.pc = "replace"
    /\ mo' = [mo EXCEPT !.pc = "loop", !.replaces = @ + 1, !.status = status]
    /\ UNCHANGED <<simvars, auxvars, po, ts, lq>>

\* trading_client.replace_order_by_id raises
ModifyReplaceFails ==
    /\ mo.pc = "replace"
    /\ mo' = [mo EXCEPT !.pc = "done", !.replaces = @ + 1, !.outcome = "raise"]
    /\ UNCHANGED <<simvars, auxvars, po, ts, lq>>

\* the while test: sleep and re-check, or leave the loop
ModifyLoop ==
    /\ mo.pc = "loop"
    /\ mo.status \in ModifyPollStatuses => mo.rechecks < MaxRechecks
    /\ mo' = IF mo.status \in ModifyPollStatuses
             THEN [mo EXCEPT !.pc = "recheck"]
             ELSE [mo EXCEPT !.pc = "check"]
    /\ UNCHANGED <<simvars, auxvars, po, ts, lq>>

\* replaced_order = await trading_client.get_order_by_id(...)
ModifyRecheck(status) ==
    /\ mo.pc = "recheck"
    /\ mo' = [mo EXCEPT !.pc = "loop", !.status = status, !.rechecks = @ + 1]
    /\ UNCHANGED <<simvars, auxvars, po, ts, lq>>

\* after the loop: raise on a failure status, else return the response
ModifyFinish ==
    /\ mo.pc = "check"
    /\ mo' = IF mo.status \in ModifyFailStatuses
             THEN [mo EXCEPT !.pc = "done", !.outcome = "raise"]
             ELSE [mo EXCEPT !.pc = "done", !.outcome = "return",
                             !.order_status = mo.status]
    /\ UNCHANGED <<simvars, auxvars, po, ts, lq>>

\* the call is over; the next call starts afresh
ModifyReturn ==
    /\ mo.pc = "done"
    /\ mo' = IdleModify
    /\ UNCHANGED <<simvars, auxvars, po, ts, lq>>

\* modify_order against any trading client
NextModify ==
    \/ \E lp \in ModifyValues, sp \in ModifyValues, sz \in ModifyValues :
            ModifyOrder(lp, sp, sz)
    \/ \E st \in OrderStatuses : ModifyReplace(st)
    \/ ModifyReplaceFails
    \/ ModifyLoop
    \/ \E st \in OrderStatuses : ModifyRecheck(st)
    \/ ModifyFinish
    \/ ModifyReturn

ModifySpec == Init /\ [][NextModify]_vars

\* --------------------------------------------------- liquidate_position tool
\* (against AsyncTradingClient: the broker answers each request by itself)

\* open_orders = await trading_client.get_orders(status=OPEN, symbols=[symbol]),
\* then the gather of one cancel_order call per open order, or close_position
\* right away when there is none
LiquidatePosition(status, position) ==
    /\ lq.pc = "idle"
    /\ LET open == {i \in LqOrderIds : status[i] \in OpenStatuses}
       IN  lq' = [IdleLiquidate EXCEPT
                     !.status = status, !.position = position, !.open = open,
                     !.sub = [i \in LqOrderIds |-> IF i \in open THEN "cancel" ELSE "none"],
                     !.pc = IF open = {} THEN "close" ELSE "gather"]
    /\ UNCHANGED <<simvars, auxvars, po, mo, ts>>

\* the exchange fills an open order while the call is running
BrokerFill(i) ==
    /\ lq.pc # "idle"
    /\ lq.status[i] \in OpenStatuses
    /\ lq' = [lq EXCEPT !.status[i] = "filled", !.position = TRUE]
    /\ UNCHANGED <<simvars, auxvars, po, mo, ts>>

\* the exchange completes a requested cancel
BrokerCancel(i) ==
    /\ lq.status[i] = "pending_cancel"
    /\ lq' = [lq EXCEPT !.status[i] = "canceled"]
    /\ UNCHANGED <<simvars, auxvars, po, mo, ts>>

\* asyncio.gather(...) when one of its calls raises: the exception is raised
\* to liquidate_position at once, whose handler returns success False
GatherAfterRaise(pc) == IF pc = "gather" THEN "done" ELSE pc

\* cancel_order(o.id): await trading_client.cancel_order_by_id(order_id); the
\* broker refuses (APIError) to cancel an order that is no longer open
LqCancelRequest(i) ==
    /\ lq.sub[i] = "cancel"
    /\ lq' = IF lq.status[i] \in OpenStatuses
             THEN [lq EXCEPT !.status[i] = "pending_cancel", !.sub[i] = "poll"]
             ELSE [lq EXCEPT !.sub[i] = "raised",
                             !.pc = GatherAfterRaise(lq.pc),
                             !.success = IF GatherAfterRaise(lq.pc) # lq.pc
                                         THEN "false" ELSE @]
    /\ UNCHANGED <<simvars, auxvars, po, mo, ts>>

\* cancel_order(o.id): order = await get_order_by_id(order_id), then the loop test
LqCancelPoll(i) ==
    /\ lq.sub[i] = "poll"
    /\ lq' = [lq EXCEPT !.sub[i] = IF CancelPollExits(lq.status[i])
                                   THEN "returned" ELSE "sleep"]
    /\ UNCHANGED <<simvars, auxvars, po, mo, ts>>

\* cancel_order(o.id): await asyncio.sleep(0.1) inside the loop
LqCancelSleep(i) ==
    /\ lq.sub[i] = "sleep"
    /\ lq' = [lq EXCEPT !.sub[i] = "poll"]
    /\ UNCHANGED <<simvars, auxvars, po, mo, ts>>

\* every gathered cancel_order call has returned: the gather is over
LqGatherDone ==
    /\ lq.pc = "gather"
    /\ \A i \in lq.open : lq.sub[i] = "returned"
    /\ lq' = [lq EXCEPT !.pc = "close"]
    /\ UNCHANGED <<simvars, auxvars, po, mo, ts>>

\* await trading_client.close_position(symbol, percentage="100"): the broker
\* closes the position, or refuses (APIError) when there is none; then the
\* return of success True, or of success False from the handler
LqClosePosition ==
    /\ lq.pc = "close"
    /\ lq' = [lq EXCEPT !.pc = "done", !.close_sent = TRUE, !.position = FALSE,
                        !.success = IF lq.position THEN "true" ELSE "false"]
    /\ UNCHANGED <<simvars, auxvars, po, mo, ts>>

\* the call is over and no cancel_order call of it is still running
LqReturn ==
    /\ lq.pc = "done"
    /\ \A i \in LqOrderIds : lq.sub[i] \in {"none", "returned", "raised"}
    /\ lq' = IdleLiquidate
    /\ UNCHANGED <<simvars, auxvars, po, mo, ts>>

NextLiquidate ==
    \/ \E st \in [LqOrderIds -> {"new", "filled"}], pos \in BOOLEAN :
            LiquidatePosition(st, pos)
    \/ \E i \in LqOrderIds : BrokerFill(i)
    \/ \E i \in LqOrderIds : BrokerCancel(i)
    \/ \E i \in LqOrderIds : LqCancelRequest(i)
    \/ \E i \in LqOrderIds : LqCancelPoll(i)
    \/ \E i \in LqOrderIds : LqCancelSleep(i)
    \/ LqGatherDone
    \/ LqClosePosition
    \/ LqReturn

LiquidateSpec == Init /\ [][NextLiquidate]_vars

\* ------------------------------------- the tools on SimulationTradingClient

\* order_class of the request place_order builds from its optional arguments
OrderClassOf(take_profit, stop_loss) ==
    IF take_profit # NULL /\ stop_loss # NULL THEN "bracket"
    ELSE IF take_profit # NULL \/ stop_loss # NULL THEN "oto"
    ELSE "simple"

\* the request object of place_order: LimitOrderRequest(...), with
\* take_profit = TakeProfitRequest(limit_price) and stop_loss =
\* StopLossRequest(stop_price) set when the argument is given
LimitOrderRequest(symbol, size, side, limit_price, take_profit, stop_loss) ==
    [symbol |-> symbol, qty |-> size, side |-> side, type |-> "limit",
     limit_price |-> limit_price, order_class |-> OrderClassOf(take_profit, stop_loss),
     take_profit |-> take_profit, stop_loss |-> stop_loss]

\* the request object of place_trailing_stop: TrailingStopOrderRequest(...)
TrailingStopOrderRequest(symbol, size, side, trail_percent, trail_price) ==
    [symbol |-> symbol, qty |-> size, side |-> side, type |-> "trailing_stop",
     trail_percent |-> trail_percent, trail_price |-> trail_price]

\* a tool call that raises before it reaches the trading client
ToolRaises(t, op, message) ==
    /\ task[t].pc = "idle"
    /\ calls < MaxCalls
    /\ calls' = calls + 1
    /\ task' = [task EXCEPT ![t] = [IdleTask EXCEPT !.op = op, !.pc = "done",
                                                     !.ret = message]]
    /\ UNCHANGED <<orders, fills, positions, price, engine, toolvars, auxvars>>

\* place_order on the simulation client: the gate, the request, submit_order;
\* the order comes back as new, so the poll loop is not entered
PlaceOrderSim(t, market_open, symbol, size, side, limit_price, take_profit, stop_loss) ==
    IF market_open
    THEN SubmitOrderData(t, LimitOrderRequest(symbol, size, side, limit_price,
                                              take_profit, stop_loss))
    ELSE ToolRaises(t, "place_order", "Market is not open")

\* place_trailing_stop on the simulation client: the gate, the argument
\* checks, the request, submit_order
PlaceTrailingStopSim(t, market_open, symbol, size, side, trail_percent, trail_price) ==
    IF market_open /\ TrailArgsValid(trail_percent, trail_price)
    THEN SubmitOrderData(t, TrailingStopOrderRequest(symbol, size, side,
                                                     trail_percent, trail_price))
    ELSE ToolRaises(t, "place_trailing_stop", "Exception")

\* get_orders(filter): the rows whose status column equals filter.status;
\* filter.symbols is not looked at
GetOrders(status, symbols) ==
    RowsOf({i \in DOMAIN orders : orders[i].status = status})

\* liquidate_position on the simulation client: open_orders = await
\* trading_client.get_orders(status=QueryOrderStatus.OPEN, symbols=[symbol])
LiquidatePositionSim(t, symbol) ==
    /\ task[t].pc = "idle"
    /\ calls < MaxCalls
    /\ calls' = calls + 1
    /\ LET open_orders == GetOrders("open", {symbol})
       IN  task' = [task EXCEPT ![t] =
              [IdleTask EXCEPT !.op = "liquidate_position", !.req = [symbol |-> symbol],
                               !.todo = open_orders,
                               !.pc = IF Len(open_orders) > 0 THEN "l_gather"
                                                               ELSE "l_close"]]
    /\ UNCHANGED <<orders, fills, positions, price, engine, toolvars, auxvars>>

\* liquidate_position: close_position(symbol, ClosePositionRequest(percentage="100")),
\* its read of the position; without a position it raises and the handler
\* returns success False
LiquidateClosePosition(t) ==
    /\ task[t].pc = "l_close"
    /\ LET position == DbGetPosition(task[t].req.symbol)
       IN  task' = [task EXCEPT ![t] =
              IF position = NoPosition
              THEN [@ EXCEPT !.pc = "done", !.ret = "success_false"]
              ELSE [@ EXCEPT !.pos = position, !.args = [NoArgs EXCEPT !.qty = NoneStr],
                             !.pc = "p_add"]]
    /\ UNCHANGED <<orders, fills, positions, price, engine, calls, toolvars, auxvars>>

\* liquidate_position has returned success True: close_position returned its order
LiquidateSuccess(t) ==
    /\ task[t].op = "liquidate_position"
    /\ task[t].pc = "done"
    /\ task[t].ret = "filled"

\* the tools of tools.py running on the simulation client, with the feed and
\* the matching engines
NextSimTool ==
    \/ \E s \in Symbols, p \in Prices : UpdateMarketData(s, p)
    \/ \E e \in Engines : EngineGetOpenOrders(e)
    \/ \E e \in Engines : EngineSleep(e)
    \/ \E e \in Engines : EngineEvaluate(e)
    \/ \E e \in Engines : EngineUpdateOrder(e)
    \/ \E e \in Engines : EngineAddFill(e)
    \/ \E e \in Engines : EngineGetPosition(e)
    \/ \E e \in Engines : EngineUpdatePosition(e)
    \/ \E t \in Tasks, open \in BOOLEAN, s \in Symbols, q \in Qtys, side \in Sides,
          p \in Prices, tp \in {NULL} \cup Prices, sl \in {NULL} \cup Prices :
            PlaceOrderSim(t, open, s, q, side, p, tp, sl)
    \/ \E t \in Tasks, open \in BOOLEAN, s \in Symbols, q \in Qtys, side \in Sides :
            PlaceTrailingStopSim(t, open, s, q, side, SimTrailPercent, None)
    \/ \E t \in Tasks, s \in Symbols : LiquidatePositionSim(t, s)
    \/ \E t \in Tasks : LiquidateClosePosition(t)
    \/ \E t \in Tasks : ClosePositionAddOrder(t)
    \/ \E t \in Tasks : ClosePositionDelete(t)
    \/ \E t \in Tasks : Return(t)

SimToolSpec == Init /\ [][NextSimTool]_vars

\* the ReplaceOrderRequest values modify_order passes on for a limit order:
\* limit_price and qty as given or None, stop_price None
ReplaceArgs ==
    {a \in [limit_price : {NULL} \cup Prices, stop_price : {NULL},
            qty : {NULL} \cup Qtys] :
        ~(a.limit_price = NULL /\ a.stop_price = NULL /\ a.qty = NULL)}

\* the order requests place_order submits: LimitOrderRequest(limit_price=price)
OrderRequests ==
    {r \in [type : {"limit"}, limit_price : Prices, stop_price : {NULL}] : TRUE}

Next ==
    \/ \E s \in Symbols, p \in Prices : UpdateMarketData(s, p)
    \/ \E e \in Engines : EngineGetOpenOrders(e)
    \/ \E e \in Engines : EngineSleep(e)
    \/ \E e \in Engines : EngineEvaluate(e)
    \/ \E e \in Engines : EngineUpdateOrder(e)
    \/ \E e \in Engines : EngineAddFill(e)
    \/ \E e \in Engines : EngineGetPosition(e)
    \/ \E e \in Engines : EngineUpdatePosition(e)
    \/ \E t \in Tasks, s \in Symbols, q \in Qtys, side \in Sides, r \in OrderRequests,
          tp \in {NULL} \cup Prices, sl \in {NULL} \cup Prices :
            SubmitOrder(t, s, q, side, r.type, r.limit_price, r.stop_price, tp, sl)
    \/ \E t \in Tasks : SubmitAddLeg(t)
    \/ \E t \in Tasks, oid \in OrderIds, a \in ReplaceArgs :
            ReplaceOrderById(t, oid, a.limit_price, a.stop_price, a.qty)
    \/ \E t \in Tasks : ReplaceUpdate(t)
    \/ \E t \in Tasks : CancelOrders(t)
    \/ \E t \in Tasks : CancelOrdersUpdate(t)
    \/ \E t \in Tasks, s \in Symbols, q \in {NoneStr} : ClosePosition(t, s, q)
    \/ \E t \in Tasks : ClosePositionAddOrder(t)
    \/ \E t \in Tasks : ClosePositionDelete(t)
    \/ \E t \in Tasks, oid \in OrderIds : CancelOrder(t, oid)
    \/ \E t \in Tasks : CancelUpdate(t)
    \/ \E t \in Tasks : CancelPoll(t)
    \/ \E t \in Tasks : CancelSleep(t)
    \/ \E t \in Tasks : Return(t)

Spec == Init /\ [][Next]_vars

\* ------------------------------- the matching engine on a store of open orders

TickPrices == 1..MaxTickPrice

\* an open order as submit_order stores it (market, limit or stop request), or
\* as replace_order_by_id leaves it when the request carries limit_price=None
\* or stop_price=None
TickOrders(id) ==
    {NewOrder(id, s, q, side, "market", NULL, NULL, "new", <<>>) :
        s \in Symbols, q \in Qtys, side \in Sides}
    \cup {NewOrder(id, s, q, side, "limit", lp, NULL, "new", <<>>) :
        s \in Symbols, q \in Qtys, side \in Sides, lp \in {NULL} \cup TickPrices}
    \cup {NewOrder(id, s, q, side, "stop", NULL, sp, "new", <<>>) :
        s \in Symbols, q \in Qtys, side \in Sides, sp \in {NULL} \cup TickPrices}

\* the stores of open orders: ids 1..n, n <= MaxOrders
TickStores ==
    UNION {{f \in [1..n -> UNION {TickOrders(i) : i \in 1..n}] :
                \A i \in 1..n : f[i].id = i} : n \in 0..MaxOrders}

\* __aenter__ of one client on a store that holds open orders and no position
TickInit ==
    /\ orders \in TickStores
    /\ fills = <<>>
    /\ positions = {}
    /\ price \in [Symbols -> {NULL} \cup TickPrices]
    /\ engine = [e \in Engines |-> IdleEngine]
    /\ task = [t \in Tasks |-> IdleTask]
    /\ calls = 0
    /\ po = IdlePlace
    /\ ts = IdleTrail
    /\ mo = IdleModify
    /\ lq = IdleLiquidate
    /\ account = <<AccountRow(1, InitialCash)>>
    /\ bars = {}
    /\ feed = IdleFeed
    /\ rq = IdleRequest
    /\ ib = IdleWait
    /\ ac = [c \in Callers |-> IdleCaller]

\* one pass of the while loop of _update_orders, step by step
EngineStep(e) ==
    \/ EngineGetOpenOrders(e)
    \/ EngineSleep(e)
    \/ EngineEvaluate(e)
    \/ EngineUpdateOrder(e)
    \/ EngineAddFill(e)
    \/ EngineGetPosition(e)
    \/ EngineUpdatePosition(e)

NextTick ==
    \/ \E s \in Symbols, p \in TickPrices : UpdateMarketData(s, p)
    \/ EngineGetOpenOrders(1)
    \/ EngineSleep(1)
    \/ EngineEvaluate(1)
    \/ EngineUpdateOrder(1)
    \/ EngineAddFill(1)
    \/ EngineGetPosition(1)
    \/ EngineUpdatePosition(1)

TickSpec == TickInit /\ [][NextTick]_vars

\* asyncio runs the engine task again after every await: the loop keeps taking
\* steps
FairTickSpec == TickSpec /\ WF_vars(EngineStep(1))

\* ------------------------------------------------- the market-data feed pass

\* ticker.history(period="1d", interval="1m") as a list of (timestamp, close):
\* the bars of a run of minutes, possibly none
Histories ==
    {<<>>} \cup UNION {[1..n -> [timestamp : 1..MaxBars, close : TickPrices]] : n \in 1..MaxBars}

\* the histories yfinance returns: consecutive minutes in ascending order
IsHistory(hist) ==
    /\ hist \in Histories
    /\ \A k \in 1..(Len(hist) - 1) : hist[k + 1].timestamp = hist[k].timestamp + 1

\* MarketData(symbol=symbol, timestamp=..., close=..., timeframe="1min") per row
\* of the history
MarketDataRows(symbol, hist) ==
    {[symbol |-> symbol, timestamp |-> hist[k].timestamp, close |-> hist[k].close,
      timeframe |-> "1min"] : k \in 1..Len(hist)}

\* the key of UniqueConstraint('symbol', 'timestamp', 'timeframe')
BarKey(b) == <<b.symbol, b.timestamp, b.timeframe>>

\* Database.add_all(rows): one session, one commit; the INSERT of a row whose
\* key is already stored violates unique_market_data and the commit fails
AddAllStores(table, rows) ==
    \A r \in rows : \A b \in table : BarKey(b) # BarKey(r)

\* the market_data table after add_all(rows) has committed
AddAll(table, rows) ==
    {b \in table : \A r \in rows : BarKey(b) # BarKey(r)} \cup rows

\* Database.get_latest_price on a market_data table: close of the row with the
\* greatest timestamp, None when the symbol has no row
LatestClose(table, symbol) ==
    IF \E b \in table : b.symbol = symbol
    THEN (CHOOSE b \in table :
            /\ b.symbol = symbol
            /\ \A c \in table : c.symbol = symbol => c.timestamp <= b.timestamp).close
    ELSE NULL

\* the two selects at the head of a pass: symbols of all orders and positions
FeedSelectSymbols ==
    /\ feed.pc = "sleep"
    /\ feed' = [feed EXCEPT !.pc = "fetch",
                            !.todo = {orders[i].symbol : i \in DOMAIN orders}
                                     \cup {p.symbol : p \in positions}]
    /\ UNCHANGED <<simvars, toolvars, account, bars, rq, ib, ac>>

\* one iteration of `for symbol in symbols`: the fetch raises, or returns a
\* history that is empty (continue) or is stored with add_all; an exception
\* leaves the loop for the except clause and the sleep
FeedRefreshSymbol(symbol, raises, fetched) ==
    /\ feed.pc = "fetch"
    /\ symbol \in feed.todo
    /\ IF raises
       THEN /\ feed' = [feed EXCEPT !.pc = "sleep", !.todo = {}]
            /\ UNCHANGED <<bars, price>>
       ELSE LET rows == MarketDataRows(symbol, fetched)
                last == IF fetched = <<>> THEN NoBar ELSE fetched[Len(fetched)]
                newest == IF last.timestamp >= feed.newest[symbol].timestamp
                          THEN last ELSE feed.newest[symbol]
            IN  IF AddAllStores(bars, rows)
                THEN /\ bars' = AddAll(bars, rows)
                     /\ price' = [s \in Symbols |-> LatestClose(AddAll(bars, rows), s)]
                     /\ feed' = [feed EXCEPT !.todo = @ \ {symbol},
                                             !.newest[symbol] = newest]
                ELSE /\ feed' = [feed EXCEPT !.pc = "sleep", !.todo = {},
                                             !.newest[symbol] = newest]
                     /\ UNCHANGED <<bars, price>>
    /\ UNCHANGED <<orders, fills, positions, engine, task, calls, toolvars,
                   account, rq, ib, ac>>

\* the for loop is exhausted: await asyncio.sleep(60)
FeedSleep ==
    /\ feed.pc = "fetch"
    /\ feed.todo = {}
    /\ feed' = [feed EXCEPT !.pc = "sleep"]
    /\ UNCHANGED <<simvars, toolvars, account, bars, rq, ib, ac>>

\* a store that holds one order of each of the two default assets and no bar
FeedInit ==
    /\ orders = [i \in 1..2 |->
                    NewOrder(i, IF i = 1 THEN "AAPL" ELSE "MSFT", 1, "buy", "limit", 1, NULL,
                             "new", <<>>)]
    /\ fills = <<>>
    /\ positions = {}
    /\ price = [s \in Symbols |-> NULL]
    /\ engine = [e \in Engines |-> IdleEngine]
    /\ task = [t \in Tasks |-> IdleTask]
    /\ calls = 0
    /\ po = IdlePlace
    /\ ts = IdleTrail
    /\ mo = IdleModify
    /\ lq = IdleLiquidate
    /\ account = <<AccountRow(1, InitialCash)>>
    /\ bars = {}
    /\ feed = IdleFeed
    /\ rq = IdleRequest
    /\ ib = IdleWait
    /\ ac = [c \in Callers |-> IdleCaller]

NextFeed ==
    \/ FeedSelectSymbols
    \/ \E s \in FeedSymbols, raises \in BOOLEAN, fetched \in {h \in Histories : IsHistory(h)} :
          FeedRefreshSymbol(s, raises, fetched)
    \/ FeedSleep

FeedSpec == FeedInit /\ [][NextFeed]_vars

\* ------------------------------------------------ AsyncRestClient._request

\* response statuses tried: success with and without a body, and error
\* statuses
StatusCodes == {200, 204, 404, 429, 504}

\* the retry_exception_codes the client is configured with
RetryCodeSets == {{429}, {429, 504}}

\* response.raise_for_status() raises HTTPStatusError
IsErrorStatus(status) == status >= 400

\* a retry code raises RetryException whether or not attempts are left
RaisesRetryException_NoBudgetTest(status, codes, retry) == status \in codes

\* _one_request: `if status_code in self._retry_codes and retry > 0`
RaisesRetryException(status, codes, retry) == status \in codes /\ retry > 0

\* _request: retry = self._retry, and the loop is entered
Request(budget, codes) ==
    /\ rq.pc = "idle"
    /\ rq' = [IdleRequest EXCEPT !.pc = "attempt", !.budget = budget, !.codes = codes,
                                 !.retry = budget]
    /\ UNCHANGED <<simvars, toolvars, account, bars, feed, ib, ac>>

\* return await self._one_request(method, url, opts, retry): the response has
\* the given status; the call returns the body, or raises RetryException to
\* the loop, or raises APIError to the caller
OneRequest(status) ==
    /\ rq.pc = "attempt"
    /\ rq' = [rq EXCEPT !.log = Append(@, status),
                        !.pc = IF ~IsErrorStatus(status) THEN "done"
                               ELSE IF RaisesRetryException(status, rq.codes, rq.retry)
                               THEN "wait" ELSE "done",
                        !.outcome = IF ~IsErrorStatus(status) THEN "returned"
                                    ELSE IF RaisesRetryException(status, rq.codes, rq.retry)
                                    THEN "" ELSE "APIError"]
    /\ UNCHANGED <<simvars, toolvars, account, bars, feed, ib, ac>>

\* except RetryException: await asyncio.sleep(self._retry_wait); retry -= 1;
\* continue, and the test `while retry >= 0`: when it fails the function ends
\* without a return statement
RetryWait ==
    /\ rq.pc = "wait"
    /\ rq' = [rq EXCEPT !.retry = @ - 1,
                        !.pc = IF rq.retry - 1 >= 0 THEN "attempt" ELSE "done",
                        !.outcome = IF rq.retry - 1 >= 0 THEN "" ELSE "None"]
    /\ UNCHANGED <<simvars, toolvars, account, bars, feed, ib, ac>>

\* the call has ended
RequestDone ==
    /\ rq.pc = "done"
    /\ rq' = IdleRequest
    /\ UNCHANGED <<simvars, toolvars, account, bars, feed, ib, ac>>

NextRequest ==
    \/ \E budget \in 1..MaxRetry, codes \in RetryCodeSets : Request(budget, codes)
    \/ \E status \in StatusCodes : OneRequest(status)
    \/ RetryWait
    \/ RequestDone

RequestSpec == Init /\ [][NextRequest]_vars

\* ------------------------------------------------ _wait_for_order_to_submit

\* OrderStatus.ActiveStates of ib_insync
IbActiveStates == {"PendingSubmit", "ApiPending", "PreSubmitted", "Submitted"}

\* the statuses a trade may show
IbStatuses == IbActiveStates \cup {"Filled", "Cancelled", "ApiCancelled", "Inactive"}

\* the while condition: the status is active and is not Submitted
IbKeepsWaiting(status) == status \in IbActiveStates /\ status # "Submitted"

\* _wait_for_order_to_submit(order): retries = 200; the trade shows the status
WaitForOrderToSubmit(status) ==
    /\ ib.pc = "idle"
    /\ ib' = [IdleWait EXCEPT !.pc = "test", !.status = status]
    /\ UNCHANGED <<simvars, toolvars, account, bars, feed, rq, ac>>

\* the while test and, inside the loop, `if retries <= 0`: cancelOrder and
\* TimeoutError; `return order` when the loop is left
WaitTest ==
    /\ ib.pc = "test"
    /\ ib' = IF IbKeepsWaiting(ib.status)
             THEN IF ib.retries <= 0
                  THEN [ib EXCEPT !.pc = "done", !.cancel_sent = TRUE,
                                  !.outcome = "TimeoutError"]
                  ELSE [ib EXCEPT !.pc = "sleep"]
             ELSE [ib EXCEPT !.pc = "done", !.outcome = "returned"]
    /\ UNCHANGED <<simvars, toolvars, account, bars, feed, rq, ac>>

\* await asyncio.sleep(0.01): the event loop may deliver a new status of the
\* trade meanwhile; the loop body assigns nothing
WaitSleep(status) ==
    /\ ib.pc = "sleep"
    /\ ib.polls < MaxIbPolls
    /\ ib' = [ib EXCEPT !.pc = "test", !.status = status, !.polls = @ + 1]
    /\ UNCHANGED <<simvars, toolvars, account, bars, feed, rq, ac>>

\* the call has ended
WaitDone ==
    /\ ib.pc = "done"
    /\ ib' = IdleWait
    /\ UNCHANGED <<simvars, toolvars, account, bars, feed, rq, ac>>

NextWait ==
    \/ \E status \in IbStatuses : WaitForOrderToSubmit(status)
    \/ WaitTest
    \/ \E status \in IbStatuses : WaitSleep(status)
    \/ WaitDone

WaitSpec == Init /\ [][NextWait]_vars

\* ------------------------------------------------------------ the account

AccountOps == {"get_account", "_initialize_db"}

\* MultipleResultsFound, raised by scalar_one_or_none() on more than one row
MultipleResultsFound == -2

\* `if not account` after account = await self.db.get_account()
AccountMissing(table) == Len(table) = 0

\* get_account / _initialize_db: account = await self.db.get_account(), which
\* is select(Account) and scalar_one_or_none()
AccountRead(c, op) ==
    /\ ac[c].pc = "idle"
    /\ ac' = [ac EXCEPT ![c] =
          IF Len(account) > 1
          THEN [pc |-> "done", op |-> op, ret |-> MultipleResultsFound]
          ELSE IF AccountMissing(account)
          THEN [pc |-> "add", op |-> op, ret |-> NULL]
          ELSE [pc |-> "done", op |-> op, ret |-> account[1].id]]
    /\ UNCHANGED <<simvars, toolvars, account, bars, feed, rq, ib>>

\* get_account / _initialize_db: await self.db.add(account) with a new uuid4
\* id and the starting cash
AccountAdd(c) ==
    /\ ac[c].pc = "add"
    /\ account' = Append(account, AccountRow(Len(account) + 1, InitialCash))
    /\ ac' = [ac EXCEPT ![c].pc = "done", ![c].ret = Len(account) + 1]
    /\ UNCHANGED <<simvars, toolvars, bars, feed, rq, ib>>

\* the call returns, or raises to its caller
AccountReturn(c) ==
    /\ ac[c].pc = "done"
    /\ ac' = [ac EXCEPT ![c] = IdleCaller]
    /\ UNCHANGED <<simvars, toolvars, account, bars, feed, rq, ib>>

\* a store with no account row
AccountInit ==
    /\ orders = [i \in {} |-> NoOrder]
    /\ fills = <<>>
    /\ positions = {}
    /\ price = [s \in Symbols |-> NULL]
    /\ engine = [e \in Engines |-> IdleEngine]
    /\ task = [t \in Tasks |-> IdleTask]
    /\ calls = 0
    /\ po = IdlePlace
    /\ ts = IdleTrail
    /\ mo = IdleModify
    /\ lq = IdleLiquidate
    /\ account = <<>>
    /\ bars = {}
    /\ feed = IdleFeed
    /\ rq = IdleRequest
    /\ ib = IdleWait
    /\ ac = [c \in Callers |-> IdleCaller]

NextAccount ==
    \/ \E c \in Callers, op \in AccountOps : AccountRead(c, op)
    \/ \E c \in Callers : AccountAdd(c)
    \/ \E c \in Callers : AccountReturn(c)

AccountSpec == AccountInit /\ [][NextAccount]_vars

\* ------------------------------------------------------------- properties

\* indices of the Fill rows of an order
FillsOf(o) == {i \in 1..Len(fills) : fills[i].order_id = o}

\* sum of the quantities of the Fill rows with the given indices
RECURSIVE SumFillQty(_)
SumFillQty(idx) ==
    IF idx = {} THEN 0
    ELSE LET i == CHOOSE j \in idx : TRUE
         IN  fills[i].qty + SumFillQty(idx \ {i})

\* cancel_order_by_id of call t has completed on an order it read as open
CanceledWhileOpen(t) ==
    /\ task[t].op = "cancel_order"
    /\ task[t].pc \in {"c_poll", "c_sleep", "done"}
    /\ task[t].ord.status \in OpenStatuses

\* C1: when a cancel of an open order races with a matching-engine tick that
\* fills it, the order ends either filled with a Fill row or canceled with no
\* fill: it is never canceled while a fill (filled size or Fill row) exists.
C1_CancelXorFill ==
    \A t \in Tasks :
        CanceledWhileOpen(t) =>
            ~(/\ orders[task[t].oid].status = "canceled"
              /\ (orders[task[t].oid].filled_qty # NULL \/ FillsOf(task[t].oid) # {}))

\* C2: overlapping matching-engine evaluations fill an order at most once, so
\* no order ever has more than one Fill row.
C2_FilledAtMostOnce ==
    \A o \in DOMAIN orders : Cardinality(FillsOf(o)) <= 1

\* C3: applying a fill is atomic: in every state an order carries a filled size
\* exactly when its Fill row exists.
C3_FillAtomic ==
    \A o \in DOMAIN orders : (orders[o].filled_qty # NULL) <=> (FillsOf(o) # {})

\* C4: terminal statuses are absorbing: no step changes the status of an order
\* that is filled, canceled, expired, rejected, stopped or suspended.
C4_TerminalAbsorbing ==
    [][\A o \in DOMAIN orders :
          orders[o].status \in TerminalStatuses => orders'[o].status = orders[o].status]_vars

\* C5: every order has filled size <= requested size, and its filled average
\* price is defined exactly when its filled size is > 0.
C5_FilledWithinRequested ==
    \A o \in DOMAIN orders :
        /\ orders[o].qty # NoneStr => orders[o].filled_qty <= orders[o].qty
        /\ (orders[o].filled_avg_price # NULL) <=> (orders[o].filled_qty > 0)

\* no engine is between the order update and the Fill insert of order o
NoFillInProgress(o) ==
    \A e \in Engines : ~(engine[e].pc = "addfill" /\ Head(engine[e].open).id = o)

\* C6: outside a running fill application, the quantities of an order's Fill
\* rows sum to its filled size.
C6_FillSumEqualsFilled ==
    \A o \in DOMAIN orders :
        NoFillInProgress(o) => SumFillQty(FillsOf(o)) = orders[o].filled_qty

C8_CancelReturnsOnFilled ==
    \A t \in Tasks :
        (task[t].op = "cancel_order" /\ task[t].pc = "c_sleep") => task[t].obs # "filled"

C10_ExhaustedIsSuccess ==
    (po.pc = "done" /\ po.rechecks = PlaceRetries /\ po.status \in PlacePollStatuses)
        => (po.outcome = "return" /\ po.order_status = po.status)

\* C10 amended: place_order re-checks the status at most 5 times; when the
\* order is still accepted or accepted_for_bidding after the last re-check it
\* returns a success payload with that status, and when it is still
\* pending_new it raises.
C10_ExhaustedAcceptedIsSuccess ==
    /\ po.rechecks <= PlaceRetries
    /\ (po.pc = "done" /\ po.rechecks = PlaceRetries
            /\ po.status \in {"accepted", "accepted_for_bidding"})
        => (po.outcome = "return" /\ po.order_status = po.status)
    /\ (po.pc = "done" /\ po.rechecks = PlaceRetries /\ po.status = "pending_new")
        => po.outcome = "raise"

\* C10 witness: the budget is used up on an accepted order and the call returned
C10_Witness ==
    /\ po.pc = "done"
    /\ po.rechecks = PlaceRetries
    /\ po.status = "accepted"
    /\ po.outcome = "return"

\* the cancel/reject family of statuses
CancelRejectFamily ==
    {"pending_cancel", "canceled", "expired", "rejected", "stopped", "suspended"}

\* C11: whenever the last status place_order observed is in the cancel/reject
\* family the call raises, and whenever it returns a success payload the
\* reported order_status is outside that family.
C11_FailFamilyRaises ==
    /\ (po.pc = "done" /\ po.submitted /\ po.status \in CancelRejectFamily)
            => po.outcome = "raise"
    /\ po.outcome = "return" => po.order_status \notin CancelRejectFamily

\* C11 witness: the order was seen accepted, then canceled on a re-check, and
\* place_order raised
C11_Witness ==
    /\ po.pc = "done"
    /\ po.rechecks > 0
    /\ po.status = "canceled"
    /\ po.outcome = "raise"

\* exactly one of the two trail arguments is given
ExactlyOneTrail(trail_percent, trail_price) ==
    (trail_percent = None) # (trail_price = None)

\* Monday..Friday, 09:30 <= time < 16:00, in minutes of the day
InMarketWindow(now) ==
    /\ now.weekday \in 0..4
    /\ 9 * 60 + 30 <= now.hour * 60 + now.minute
    /\ now.hour * 60 + now.minute < 16 * 60

\* C18 as claimed: with the market open, place_trailing_stop submits an order
\* exactly when one of trail_percent / trail_price is given and it is within
\* trail_percent in (0, 20] or trail_price > 0.
C18_SubmitsIffInClaimedBounds ==
    (ts.pc = "done" /\ InMarketWindow(ts.now)) =>
        (ts.submitted <=>
            /\ ExactlyOneTrail(ts.trail_percent, ts.trail_price)
            /\ ts.trail_percent # None =>
                    (0 < ts.trail_percent /\ ts.trail_percent <= 20000)
            /\ ts.trail_price # None => ts.trail_price > 0)

\* C18 amended: with the market open, place_trailing_stop submits an order
\* exactly when one of trail_percent / trail_price is given and it is within
\* trail_percent in [0.01, 20] or trail_price > 0; in every other case it
\* raises without a submit call.
C18_SubmitsIffInBounds ==
    ts.pc = "done" =>
        /\ ts.submitted <=>
              /\ InMarketWindow(ts.now)
              /\ ExactlyOneTrail(ts.trail_percent, ts.trail_price)
              /\ ts.trail_percent # None =>
                      (10 <= ts.trail_percent /\ ts.trail_percent <= 20000)
              /\ ts.trail_price # None => ts.trail_price > 0
        /\ ~ts.submitted => ts.outcome = "raise"

\* C18 witness: a 5% trail was submitted and the call returned
C18_Witness ==
    /\ ts.pc = "done"
    /\ ts.submitted
    /\ ts.trail_percent = 5000
    /\ ts.trail_price = None
    /\ ts.outcome = "return"

\* C20: is_market_open() is true exactly on Monday..Friday from 09:30 up to but
\* not including 16:00, and a place_order or place_trailing_stop call made
\* outside that window raises without any submit call.
C20_MarketHoursGate ==
    /\ po.pc # "idle" =>
          /\ IsMarketOpen(po.now) <=> InMarketWindow(po.now)
          /\ ~InMarketWindow(po.now) =>
                (po.pc = "done" /\ po.outcome = "raise" /\ ~po.submitted)
    /\ ts.pc # "idle" =>
          /\ IsMarketOpen(ts.now) <=> InMarketWindow(ts.now)
          /\ ~InMarketWindow(ts.now) =>
                (ts.pc = "done" /\ ts.outcome = "raise" /\ ~ts.submitted)

\* C20 witness: place_order called on a Monday at 09:29 has raised
C20_Witness ==
    /\ po.pc = "done"
    /\ po.now = [weekday |-> 0, hour |-> 9, minute |-> 29]
    /\ po.outcome = "raise"
    /\ ~po.submitted

\* C16: modify_order raises without any replace request whenever both
\* limit_price and stop_price are given and whenever none of limit_price,
\* stop_price and size is given; in every other case it issues exactly one
\* replace request.
C16_ModifyValidates ==
    mo.pc = "done" =>
        IF \/ (mo.limit_price # None /\ mo.stop_price # None)
           \/ (mo.limit_price = None /\ mo.stop_price = None /\ mo.size = None)
        THEN mo.replaces = 0 /\ mo.outcome = "raise"
        ELSE mo.replaces = 1

\* C17: modify_order re-checks the status at most as often as place_order's
\* retry budget allows, and it raises whenever the last status it observed is
\* in the cancel/reject family.
C17_ModifyPollBounded ==
    /\ mo.rechecks <= PlaceRetries
    /\ (mo.pc = "done" /\ mo.replaces = 1 /\ mo.status \in CancelRejectFamily)
            => mo.outcome = "raise"

\* C14: when one of the gathered cancels has failed, liquidate_position
\* reports success False and has still requested the closing order, so the
\* position is closed.
C14_FailedCancelStillCloses ==
    (lq.pc = "done" /\ \E i \in lq.open : lq.sub[i] = "raised") =>
        /\ lq.success = "false"
        /\ lq.close_sent
        /\ ~lq.position

\* C12: place_order requests a simple order, an OTO or a bracket according to
\* which of take_profit and stop_loss are given, and once submit_order is
\* through for a bracket the store holds the parent and its two legs, the
\* parent's leg list naming exactly the take-profit and the stop-loss leg.
C12_BracketStoresThreeOrders ==
    \A t \in Tasks :
        (task[t].pc = "done" /\ "order_class" \in DOMAIN task[t].req) =>
            LET r == task[t].req
                parent == orders[task[t].oid]
                n == (IF r.take_profit # NULL THEN 1 ELSE 0)
                     + (IF r.stop_loss # NULL THEN 1 ELSE 0)
            IN  /\ r.order_class = (IF n = 2 THEN "bracket"
                                    ELSE IF n = 1 THEN "oto" ELSE "simple")
                /\ r.order_class = "bracket" =>
                      /\ Len(parent.legs) = 2
                      /\ parent.legs[1] # parent.legs[2]
                      /\ \A k \in 1..2 : parent.legs[k] \in DOMAIN orders
                      /\ \E k \in 1..2 : orders[parent.legs[k]].limit_price = r.take_profit
                      /\ \E k \in 1..2 : orders[parent.legs[k]].stop_price = r.stop_loss

\* the open orders of a symbol
OpenOrdersOf(symbol) ==
    {i \in DOMAIN orders : orders[i].symbol = symbol /\ orders[i].status \in OpenStatuses}

\* C15: liquidate_position sets out to cancel exactly the orders of its symbol
\* that are open when it is called, and when it has returned success True no
\* open order and no position of the symbol is left.
C15_LiquidateCancelsOpenOrders ==
    [][\A t \in Tasks :
          /\ (task[t].pc = "idle" /\ task'[t].op = "liquidate_position") =>
                {task'[t].todo[k].id : k \in 1..Len(task'[t].todo)}
                    = OpenOrdersOf(task'[t].req.symbol)
          /\ (task'[t].op = "liquidate_position" /\ task'[t].pc = "done"
                 /\ task'[t].ret = "filled") =>
                /\ {i \in DOMAIN orders' : orders'[i].symbol = task'[t].req.symbol
                                           /\ orders'[i].status \in OpenStatuses} = {}
                /\ ~(\E p \in positions' : p.symbol = task'[t].req.symbol)]_vars

\* C19: once a matching-engine tick has looked at an open trailing stop at a
\* known price, the order has an effective stop price; for a sell-side trail of
\* 5% it is at least 95% of that price and not lower than before, for a
\* buy-side trail at most 105% of that price and not higher than before.
C19_TrailingStopRatchets ==
    [][\A e \in Engines :
          (/\ engine[e].pc = "price"
           /\ engine[e].open # <<>>
           /\ engine'[e] # engine[e]
           /\ Head(engine[e].open).type = "trailing_stop"
           /\ orders[Head(engine[e].open).id].status \in OpenStatuses
           /\ price[Head(engine[e].open).symbol] # NULL)
          => LET id == Head(engine[e].open).id
                 latest == price[orders[id].symbol]
                 before == orders[id].stop_price
                 after == orders'[id].stop_price
             IN  /\ after # NULL
                 /\ orders[id].side = "sell" =>
                       /\ after * 100000 >= latest * (100000 - SimTrailPercent)
                       /\ after >= before
                 /\ orders[id].side = "buy" =>
                       /\ after * 100000 <= latest * (100000 + SimTrailPercent)
                       /\ before # NULL => after <= before]_vars
\* ---------------------------------------------- matching engine, tick by tick

\* the fill condition of an order against a latest price, as the rules state it
FillConditionHolds(o, latest) ==
    \/ o.type = "market"
    \/ o.type = "limit" /\ o.side = "buy" /\ latest <= o.limit_price
    \/ o.type = "limit" /\ o.side = "sell" /\ latest >= o.limit_price
    \/ o.type = "stop" /\ o.side = "sell" /\ latest <= o.stop_price
    \/ o.type = "stop" /\ o.side = "buy" /\ latest >= o.stop_price

\* the order carries the price its kind is decided on
HasItsPrice(o) ==
    /\ o.type = "limit" => o.limit_price # NULL
    /\ o.type = "stop" => o.stop_price # NULL

\* C21: when a tick evaluates an order against a known latest price, it goes
\* on to fill it exactly if the order is a market order, a limit buy with
\* latest <= limit, a limit sell with latest >= limit, a stop sell with
\* latest <= stop or a stop buy with latest >= stop; the fill price is the
\* limit price for a limit order and the latest price otherwise; an order that
\* is not fillable is passed over and no table changes
C21_TickDecision ==
    [][\A e \in Engines :
        (/\ engine[e].pc = "price" /\ engine[e].open # <<>>
         /\ engine'[e] # engine[e]
         /\ DbGetLatestPrice(Head(engine[e].open).symbol) # NULL
         /\ HasItsPrice(Head(engine[e].open)))
        => LET o == Head(engine[e].open)
               latest == DbGetLatestPrice(o.symbol)
           IN  /\ orders' = orders /\ fills' = fills /\ positions' = positions
               /\ IF FillConditionHolds(o, latest)
                  THEN /\ engine'[e].pc = "update"
                       /\ engine'[e].open = engine[e].open
                       /\ engine'[e].fill_price =
                              (IF o.type = "limit" THEN o.limit_price ELSE latest)
                  ELSE /\ engine'[e].pc = "price"
                       /\ engine'[e].open = Tail(engine[e].open)]_vars

\* a tick is about to fill a limit buy at its limit price while the latest
\* price is lower, and a stop order has been filled at the latest price
C21_Witness ==
    /\ \E e \in Engines :
          /\ engine[e].pc = "update"
          /\ Head(engine[e].open).type = "limit"
          /\ Head(engine[e].open).side = "buy"
          /\ price[Head(engine[e].open).symbol] < Head(engine[e].open).limit_price
          /\ engine[e].fill_price = Head(engine[e].open).limit_price
    /\ \E i \in DOMAIN orders :
          /\ orders[i].type = "stop"
          /\ orders[i].status = "filled"
          /\ orders[i].filled_avg_price # NULL

\* the stored order is open and its fill condition holds against the latest
\* stored price
OpenAndFillable(i) ==
    /\ i \in DOMAIN orders
    /\ orders[i].status \in OpenStatuses
    /\ HasItsPrice(orders[i])
    /\ price[orders[i].symbol] # NULL
    /\ FillConditionHolds(orders[i], price[orders[i].symbol])

\* the stored order is filled for its requested size
FilledInFull(i) ==
    /\ i \in DOMAIN orders
    /\ orders[i].status = "filled"
    /\ orders[i].filled_qty = orders[i].qty

\* C22: with the matching-engine loop scheduled fairly, an open order whose
\* fill condition holds against the latest price is eventually filled for its
\* full size, unless the price moves so that the condition stops holding
C22_FillableEventuallyFilled ==
    \A i \in OrderIds : OpenAndFillable(i) ~> (FilledInFull(i) \/ ~OpenAndFillable(i))

\* C27: a tick handles its open orders independently: the tick ends only
\* when no other order it read is left unhandled, whether or not the order at
\* hand failed
C27_TickHandlesEveryOrder ==
    [][\A e \in Engines :
        (engine[e].pc # "sleep" /\ engine'[e].pc = "sleep")
        => Len(engine[e].open) <= 1]_vars

\* signed size of the symbol's position in a positions table: long counted
\* positive, short negative, 0 when the symbol has no row
PositionSignedSize(table, symbol) ==
    IF \E p \in table : p.symbol = symbol
    THEN LET p == CHOOSE r \in table : r.symbol = symbol
         IN  IF p.side = "long" THEN p.qty ELSE 0 - p.qty
    ELSE 0

\* C23: applying a fill to the symbol's position adds the fill's signed size
\* (buy +, sell -) to the position's signed size (long +, short -), and no row
\* is kept for a size of zero
C23_SignedSizeAccounting ==
    [][\A e \in Engines :
        (engine[e].pc = "updpos" /\ engine'[e].pc # "updpos")
        => LET o == Head(engine[e].open)
           IN  /\ PositionSignedSize(positions', o.symbol) =
                      PositionSignedSize(positions, o.symbol) + SignedQty(o)
               /\ \A p \in positions' : p.qty > 0]_vars

\* sum of signed size x fill price over the first n Fill rows (buy +, sell -)
RECURSIVE FillCost(_)
FillCost(n) ==
    IF n = 0 THEN 0
    ELSE FillCost(n - 1) +
         (IF orders[fills[n].order_id].side = "sell" THEN 0 - fills[n].qty ELSE fills[n].qty)
            * fills[n].price

\* C24: the account's cash is the initial cash minus the sum of signed fill
\* size x fill price over all Fill rows
C24_CashFollowsFills ==
    /\ Len(account) = 1
    /\ account[1].cash = InitialCash - FillCost(Len(fills))

\* ------------------------------------------------------------ account

\* C25: the account is a singleton: the table never holds more than one row,
\* and every call that has finished found or created the one row there is
C25_AccountSingleton ==
    /\ Len(account) <= 1
    /\ \A c \in Callers :
          ac[c].pc = "done" => Len(account) = 1 /\ ac[c].ret = account[1].id

\* ------------------------------------------------------- market-data feed

\* C26: a refresh pass handles its symbols independently: the pass ends only
\* when no other symbol it selected is left unrefreshed, whether or not the
\* symbol at hand failed
C26_PassRefreshesEverySymbol ==
    [][(feed.pc = "fetch" /\ feed'.pc = "sleep") => Cardinality(feed.todo) <= 1]_vars

\* C28: storing bars is an upsert: the table holds one row per key, and once
\* a refresh has fetched bars of a symbol the latest price of the symbol is
\* the close of the newest bar fetched so far
C28_BarsUpsert ==
    /\ \A b, c \in bars : BarKey(b) = BarKey(c) => b = c
    /\ \A s \in FeedSymbols :
          feed.newest[s] # NoBar => LatestClose(bars, s) = feed.newest[s].close

\* ------------------------------------------------------------ REST client

C30_WaitGivesUp ==
    ib.pc = "sleep" => ib.polls < IbRetries

====
